---- MODULE Spec2Model ----
(***************************************************************************)
(* Model of mcp_schema.schema.flatten_schema: the recursive JSON-schema    *)
(* normaliser (reference inlining, union collapse, keyword filter, array   *)
(* item backfill).                                                         *)
(*                                                                         *)
(* JSON values are tagged records [k, v]:                                  *)
(*   k = "dict"  v = function from key strings to values                   *)
(*   k = "list"  v = sequence of values                                    *)
(*   k = "str"   v = string                                                *)
(*   k = "none"  Python None (also the result of dict.get on a missing key)*)
(* Dict equality is Python's: key order does not matter.                   *)
(***************************************************************************)
EXTENDS Integers, Sequences, FiniteSets, TLC

\* flatten_schema: the document, the position of the caller, the results of
\* the first and of the second call, the log of the nested calls
VARIABLES schema, pc, result, calls, result2

\* code_exec: request.code, the CODE_EXEC_COMMAND_TIMEOUT setting, the parsed
\* timeout_value, the calls of run_sandboxed_command made so far, what the last
\* of them gave, the response returned, the position in the handler
VARIABLES code, timeout_setting, timeout_value, sandbox_calls, sandbox_outcome,
          response, exec_pc

\* _apply_filters: its arguments, what it returned, and where the call is
VARIABLES row, conditions, column_indices, match_all, filter_result, filter_pc

\* read_tab: its arguments, the sheets of the file, the two workbooks (unbound,
\* open or closed), what it returned, and where the call is
VARIABLES file_path, tab_index, cell_range, sheet_count, workbook_values,
          workbook_formulas, read_result, read_pc

schemaVars == <<schema, pc, result, calls, result2>>
execVars == <<code, timeout_setting, timeout_value, sandbox_calls, sandbox_outcome,
              response, exec_pc>>

filterVars == <<row, conditions, column_indices, match_all, filter_result, filter_pc>>
readVars == <<file_path, tab_index, cell_range, sheet_count, workbook_values,
              workbook_formulas, read_result, read_pc>>
vars == <<schemaVars, execVars, filterVars, readVars>>

----------------------------------------------------------------------------
(* Values *)

Str(s) == [k |-> "str", v |-> s]
Dict(f) == [k |-> "dict", v |-> f]
List(s) == [k |-> "list", v |-> s]
None == [k |-> "none", v |-> 0]
EmptyMap == [key \in {} |-> None]
EmptyDict == Dict(EmptyMap)

IsDict(x) == x.k = "dict"
IsList(x) == x.k = "list"
IsStr(x) == x.k = "str"

\* key in d
Has(d, key) == IsDict(d) /\ key \in DOMAIN d.v
\* d.get(key)
Get(d, key) == IF Has(d, key) THEN d.v[key] ELSE None
\* {**a, **b} on the underlying maps: b wins on a collision
Merge(a, b) ==
    [key \in (DOMAIN a) \cup (DOMAIN b) |-> IF key \in DOMAIN b THEN b[key] ELSE a[key]]
\* Python truthiness of a value
Truthy(x) ==
    CASE x.k = "none" -> FALSE
      [] x.k = "str" -> x.v # ""
      [] x.k = "list" -> Len(x.v) > 0
      [] x.k = "dict" -> DOMAIN x.v # {}
      [] OTHER -> TRUE
\* str(x): the identity on a str; the repr of other values is not modelled
\* character by character
PyStr(x) ==
    CASE x.k = "str" -> x.v
      [] x.k = "none" -> "None"
      [] OTHER -> "<repr>"

----------------------------------------------------------------------------
(* Strings with "/" : a string is known to the model by its "/"-separated  *)
(* segments; JoinSlash builds the string, SplitSlash is str.split("/").    *)

RECURSIVE JoinWith(_, _)
\* sep.join(segs)
JoinWith(segs, sep) ==
    IF Len(segs) = 0 THEN ""
    ELSE IF Len(segs) = 1 THEN segs[1]
    ELSE segs[1] \o sep \o JoinWith(Tail(segs), sep)

JoinSlash(segs) == JoinWith(segs, "/")

\* The segment sequences of the strings that contain a "/" in the modelled inputs
SlashedSegs ==
    { <<"#", "$defs", "A">>, <<"#", "$defs", "B">>, <<"#", "$defs", "C">>,
      <<"#", "definitions", "A">>, <<"#", "$defs", "x", "A">> }

\* s.split("/")
SplitSlash(s) ==
    IF \E q \in SlashedSegs : JoinSlash(q) = s
    THEN CHOOSE q \in SlashedSegs : JoinSlash(q) = s
    ELSE <<s>>

\* s.startswith("#/$defs/")
StartsWithDefs(s) ==
    LET q == SplitSlash(s) IN Len(q) >= 3 /\ q[1] = "#" /\ q[2] = "$defs"

\* "/" in s
HasSlash(s) == Len(SplitSlash(s)) >= 2

\* s.split("/")[-1]
LastSegment(s) == LET q == SplitSlash(s) IN q[Len(q)]

----------------------------------------------------------------------------
(* flatten_schema *)

UNSUPPORTED_FIELDS ==
    { "$defs", "$ref", "default", "title", "additionalProperties", "const",
      "minimum", "maximum", "exclusiveMinimum", "exclusiveMaximum", "minItems",
      "maxItems", "minLength", "maxLength", "pattern", "uniqueItems", "examples",
      "prefixItems" }

\* The interpreter's limit on nested calls (sys.getrecursionlimit), scaled to
\* the size of the modelled documents: a deeper call raises RecursionError.
RecursionLimit == 14

\* copy.deepcopy: values of the model are immutable, a copy is an equal value
deepcopy(x) == x

\* One step of the call stack: the nested call made for `name`, where kind
\* tells which call of inline_refs: "key" the value of a keyword (lines 62-64,
\* 80-82, 128), "def" the definition of a reference (line 73), "branch" the
\* first non-null branch of a union (line 100), "property" the schema of a
\* property (lines 123-126), "prefix" the first prefixItems element (line 135),
\* "index" an element of a list (line 142).
Step(kind, name) == [kind |-> kind, name |-> name]

\* One entry of the call log: a call of inline_refs with its arguments, the
\* chain of nested calls that leads to it (path) and its nesting depth, the
\* value it returned and the exception it raised ("" if none).
Call(obj, defs, seen, path, res, exc) ==
    [obj |-> obj, defs |-> defs, seen |-> seen, path |-> path, depth |-> Len(path) + 1,
     res |-> res, exc |-> exc]

\* A call that returns res, after the nested calls logged in log
Ret(obj, defs, seen, path, res, log) ==
    [res |-> res, log |-> log \cup {Call(obj, defs, seen, path, res, "")}]

\* A call that raises exc, after the nested calls logged in log
Raise(obj, defs, seen, path, exc, log) ==
    [res |-> EmptyDict, log |-> log \cup {Call(obj, defs, seen, path, EmptyDict, exc)}]

\* get_type_name(t)
get_type_name(t) ==
    IF Has(t, "type") THEN PyStr(t.v["type"])
    ELSE LET ref_val == Get(t, "$ref")
         IN IF IsStr(ref_val) /\ HasSlash(ref_val.v) THEN LastSegment(ref_val.v)
            ELSE "unknown"

\* mutant: {**obj["$defs"], **(defs or {})}, the inherited definition wins
LocalDefs_InheritedWins(obj, defs) ==
    IF Has(obj, "$defs")
    THEN Dict(Merge(obj.v["$defs"].v, IF Truthy(defs) THEN defs.v ELSE EmptyMap))
    ELSE defs

\* local_defs: the inherited table with the node's own $defs merged over it
LocalDefs(obj, defs) ==
    IF Has(obj, "$defs")
    THEN Dict(Merge(IF Truthy(defs) THEN defs.v ELSE EmptyMap, obj.v["$defs"].v))
    ELSE defs

\* {**(defs or {}), **obj["$defs"]} raises TypeError unless obj["$defs"] is a mapping
LocalDefsRaises(obj) == Has(obj, "$defs") /\ ~IsDict(obj.v["$defs"])

\* isinstance(ref, str) and ref.startswith("#/$defs/") and local_defs
IsDefsRef(ref, local_defs) ==
    IsStr(ref) /\ StartsWithDefs(ref.v) /\ Truthy(local_defs)

\* ref.split("/")[-1]
RefKey(ref) == LastSegment(ref.v)

\* mutant: a node with a non-empty anyOf list is never handled as a reference
RefResolvable_UnlessUnion(obj, local_defs) ==
    LET ref == Get(obj, "$ref")
        any_of == Get(obj, "anyOf")
    IN /\ IsDefsRef(ref, local_defs) /\ RefKey(ref) \in DOMAIN local_defs.v
       /\ ~(IsList(any_of) /\ Len(any_of.v) > 0)

\* the reference branch is taken: the guard above and ref_key in local_defs
RefResolvable(obj, local_defs) ==
    LET ref == Get(obj, "$ref")
    IN IsDefsRef(ref, local_defs) /\ RefKey(ref) \in DOMAIN local_defs.v

\* mutant: the siblings of a reference are not filtered by UNSUPPORTED_FIELDS
SiblingKeys_KeepUnsupported(obj) ==
    { key \in DOMAIN obj.v : key \notin {"$ref", "anyOf"} }

\* keys kept as sibling_props of a reference node
SiblingKeys(obj) ==
    { key \in DOMAIN obj.v : key \notin UNSUPPORTED_FIELDS /\ key \notin {"$ref", "anyOf"} }

\* mutant: the visited set is never consulted
IsRecursive_Never(ref_key, seen) == FALSE

\* ref_key in seen: the name is being expanded on the path to this node
IsRecursive(ref_key, seen) == ref_key \in seen

\* mutant: the names visited above the reference are forgotten
Visit_ForgetsPath(seen, ref_key) == {ref_key}

\* seen | {ref_key}: the visited set for the expansion of ref_key
Visit(seen, ref_key) == seen \cup {ref_key}

\* mutant: a definition is expanded under the table its referencing node inherited
ExpansionDefs_Inherited(defs, local_defs) == defs

\* the table passed to the expansion of a definition: local_defs, the table in
\* effect at the referencing node
ExpansionDefs(defs, local_defs) == local_defs

\* mutant: the placeholder drops the keywords of the referencing node
Placeholder_NoSiblings(ref_key, sibling_props) ==
    "type" :> Str("object") @@ "description" :> Str("(recursive: " \o ref_key \o ")")

\* the node returned for a reference to a name that is being expanded
Placeholder(ref_key, sibling_props) ==
    Merge("type" :> Str("object")
            @@ "description" :> Str("(recursive: " \o ref_key \o ")"),
          sibling_props)

\* mutant: {**sibling_props, **inlined_def}, the definition wins a collision
MergeInlined_DefinitionWins(inlined_def, sibling_props) == Merge(sibling_props, inlined_def)

\* {**inlined_def, **sibling_props}
MergeInlined(inlined_def, sibling_props) == Merge(inlined_def, sibling_props)

\* isinstance(any_of, list) and len(any_of) > 0
IsUnion(obj) ==
    LET any_of == Get(obj, "anyOf") IN IsList(any_of) /\ Len(any_of.v) > 0

\* isinstance(item, dict) and item.get("type") != "null"
IsNonNull(item) == IsDict(item) /\ Get(item, "type") # Str("null")

\* non_null_types
NonNullTypes(any_of) == SelectSeq(any_of.v, IsNonNull)

\* mutant: the unsupported keywords of a union node are kept
UnionKeys_KeepUnsupported(obj) == { key \in DOMAIN obj.v : key # "anyOf" }

\* keys kept from a union node
UnionKeys(obj) ==
    { key \in DOMAIN obj.v : key \notin UNSUPPORTED_FIELDS /\ key # "anyOf" }

\* the result for a union without a non-null branch
EmptyUnionResult(res) ==
    IF "type" \notin DOMAIN res THEN Merge(res, "type" :> Str("string")) ELSE res

\* mutant: the names are listed last branch first
TypeNames_Reversed(non_null_types) ==
    [i \in 1..Len(non_null_types) |->
        get_type_name(non_null_types[Len(non_null_types) + 1 - i])]

\* [get_type_name(t) for t in non_null_types]
TypeNames(non_null_types) ==
    [i \in 1..Len(non_null_types) |-> get_type_name(non_null_types[i])]

\* f"(Union of: {', '.join(type_names)})"
UnionNote(type_names) == "(Union of: " \o JoinWith(type_names, ", ") \o ")"

\* the description of a union with more than one non-null branch
UnionDescription(field_description, union_note) ==
    IF Truthy(field_description)
    THEN PyStr(field_description) \o " " \o union_note
    ELSE union_note

\* mutant: the annotation is written for a single non-null branch too
CollapseUnion_AlwaysAnnotates(res, branch, non_null_types, field_description) ==
    Merge(Merge(res, branch),
          "description" :> Str(UnionDescription(field_description,
                                   UnionNote(TypeNames(non_null_types)))))

\* mutant: the description of the union node is not restored after the update
CollapseUnion_BranchDescription(res, branch, non_null_types, field_description) ==
    IF Len(non_null_types) > 1
    THEN Merge(Merge(res, branch),
               "description" :> Str(UnionDescription(field_description,
                                        UnionNote(TypeNames(non_null_types)))))
    ELSE Merge(res, branch)

\* result.update(branch), then the description rules
CollapseUnion(res, branch, non_null_types, field_description) ==
    LET updated == Merge(res, branch)
    IN IF Len(non_null_types) > 1
       THEN Merge(updated,
                  "description" :> Str(UnionDescription(field_description,
                                           UnionNote(TypeNames(non_null_types)))))
       ELSE IF field_description # None
       THEN Merge(updated, "description" :> field_description)
       ELSE updated

\* mutant: $ref is not among the keywords dropped from a plain node
PlainKeys_KeepRef(obj) ==
    { key \in DOMAIN obj.v : key \notin UNSUPPORTED_FIELDS \ {"$ref"} }

\* keys kept from a plain node
PlainKeys(obj) == { key \in DOMAIN obj.v : key \notin UNSUPPORTED_FIELDS }

\* mutant: the items of an array are written even where the node has its own
NeedsItems_IgnoresItems(inlined) ==
    "type" \in DOMAIN inlined /\ inlined["type"] = Str("array")

\* inlined.get("type") == "array" and "items" not in inlined
NeedsItems(inlined) ==
    ("type" \in DOMAIN inlined /\ inlined["type"] = Str("array")) /\ "items" \notin DOMAIN inlined

\* isinstance(prefix_items, list) and len(prefix_items) > 0
HasPrefixItems(prefix_items) == IsList(prefix_items) /\ Len(prefix_items.v) > 0

\* mutant: the last element of the tuple stands for the items
FirstPrefixItem_Last(prefix_items) == prefix_items.v[Len(prefix_items.v)]

\* prefix_items[0]
FirstPrefixItem(prefix_items) == prefix_items.v[1]

\* {"type": "string"}
DefaultItems == Dict("type" :> Str("string"))

\* inlined["items"] = items
WithItems(inlined, items) == Merge(inlined, "items" :> items)

RECURSIVE inline_refs(_, _, _, _)

\* the nested calls on the values of the given keys: a set of <<key, outcome>>
Nested(obj, keys, defs, seen, path) ==
    { <<key, inline_refs(obj.v[key], defs, seen, Append(path, Step("key", key)))>> :
        key \in keys }

\* the mapping of the results of nested calls
Results(nested) ==
    [key \in { p[1] : p \in nested } |-> (CHOOSE p \in nested : p[1] = key)[2].res]

\* the log entries of nested calls
Logs(nested) == UNION { p[2].log : p \in nested }

\* lines 61-75: the node is a reference to a definition of the table
RefBranch(obj, defs, local_defs, seen, path) ==
    LET ref_key == RefKey(Get(obj, "$ref"))
        sib == Nested(obj, SiblingKeys(obj), local_defs, seen, path)
        sibling_props == Results(sib)
    IN IF IsRecursive(ref_key, seen)
       THEN Ret(obj, defs, seen, path, Dict(Placeholder(ref_key, sibling_props)), Logs(sib))
       ELSE LET d == inline_refs(deepcopy(local_defs.v[ref_key]), ExpansionDefs(defs, local_defs),
                                 Visit(seen, ref_key), Append(path, Step("def", ref_key)))
            IN IF ~IsDict(d.res)
               THEN Raise(obj, defs, seen, path, "TypeError", Logs(sib) \cup d.log)
               ELSE Ret(obj, defs, seen, path,
                        Dict(MergeInlined(d.res.v, sibling_props)), Logs(sib) \cup d.log)

\* lines 77-112: the node is a union
UnionBranch(obj, defs, local_defs, seen, path) ==
    LET non_null_types == NonNullTypes(Get(obj, "anyOf"))
        sib == Nested(obj, UnionKeys(obj), local_defs, seen, path)
    IN IF Len(non_null_types) = 0
       THEN Ret(obj, defs, seen, path, Dict(EmptyUnionResult(Results(sib))), Logs(sib))
       ELSE LET b == inline_refs(non_null_types[1], local_defs, seen,
                                 Append(path, Step("branch", "anyOf")))
            IN Ret(obj, defs, seen, path,
                   Dict(CollapseUnion(Results(sib), b.res.v, non_null_types,
                                      Get(obj, "description"))),
                   Logs(sib) \cup b.log)

\* lines 121-126: the values of "properties" are normalised, the names are kept
Properties(value, local_defs, seen, path) ==
    LET props == { <<name, inline_refs(value.v[name], local_defs, seen,
                                         Append(path, Step("property", name)))>> :
                     name \in DOMAIN value.v }
    IN [res |-> Dict(Results(props)), log |-> Logs(props)]

\* lines 114-139: any other mapping
PlainBranch(obj, defs, local_defs, seen, path) ==
    LET prefix_items == Get(obj, "prefixItems")
        sub == { <<key, IF key = "properties" /\ IsDict(obj.v[key])
                        THEN Properties(obj.v[key], local_defs, seen, path)
                        ELSE inline_refs(obj.v[key], local_defs, seen,
                                         Append(path, Step("key", key)))>> :
                   key \in PlainKeys(obj) }
        inlined == Results(sub)
    IN IF NeedsItems(inlined)
       THEN IF HasPrefixItems(prefix_items)
            THEN LET first == inline_refs(FirstPrefixItem(prefix_items), local_defs, seen,
                                              Append(path, Step("prefix", "prefixItems")))
                 IN Ret(obj, defs, seen, path, Dict(WithItems(inlined, first.res)),
                        Logs(sub) \cup first.log)
            ELSE Ret(obj, defs, seen, path, Dict(WithItems(inlined, DefaultItems)), Logs(sub))
       ELSE Ret(obj, defs, seen, path, Dict(inlined), Logs(sub))

\* lines 141-142: a list
ListBranch(obj, defs, seen, path) ==
    LET items == { <<i, inline_refs(obj.v[i], defs, seen, Append(path, Step("index", ToString(i))))>> :
                     i \in 1..Len(obj.v) }
    IN Ret(obj, defs, seen, path,
           List([i \in 1..Len(obj.v) |-> (CHOOSE p \in items : p[1] = i)[2].res]),
           Logs(items))

\* inline_refs(obj, defs, seen), reached by the chain of nested calls `path`
inline_refs(obj, defs, seen, path) ==
    IF Len(path) + 1 > RecursionLimit THEN Raise(obj, defs, seen, path, "RecursionError", {})
    ELSE IF IsDict(obj)
    THEN IF LocalDefsRaises(obj) THEN Raise(obj, defs, seen, path, "TypeError", {})
         ELSE LET local_defs == LocalDefs(obj, defs)
              IN IF RefResolvable(obj, local_defs)
                 THEN RefBranch(obj, defs, local_defs, seen, path)
                 ELSE IF IsUnion(obj)
                 THEN UnionBranch(obj, defs, local_defs, seen, path)
                 ELSE PlainBranch(obj, defs, local_defs, seen, path)
    ELSE IF IsList(obj) THEN ListBranch(obj, defs, seen, path)
    ELSE Ret(obj, defs, seen, path, obj, {})

\* flatten_schema(schema): inline_refs(schema) with defs = None and seen = set()
flatten_schema(s) == inline_refs(s, None, {}, <<>>)

\* the call raised: some nested call raised
Raised(log) == \E c \in log : c.exc # ""

----------------------------------------------------------------------------
(* The schema documents of the model *)

\* the longest anyOf list of the modelled documents
MaxBranches == 3

\* the longest prefixItems list of the modelled documents
MaxPrefix == 2

RefA == JoinSlash(<<"#", "$defs", "A">>)
RefB == JoinSlash(<<"#", "$defs", "B">>)
\* a name no table defines
RefC == JoinSlash(<<"#", "$defs", "C">>)
\* not of the form #/$defs/<name>
RefOld == JoinSlash(<<"#", "definitions", "A">>)
\* a longer pointer under #/$defs/
RefDeep == JoinSlash(<<"#", "$defs", "x", "A">>)

Ref(s) == Dict("$ref" :> Str(s))
Typed(t) == Dict("type" :> Str(t))

TString == Typed("string")
TInteger == Typed("integer")
TNull == Typed("null")
Described == Dict("type" :> Str("integer") @@ "description" :> Str("inner"))
Untyped == Dict("format" :> Str("date"))

\* the leaves: branches of unions, item and property schemas
Leaves == { TString, TNull, Described, Untyped, Ref(RefA), Ref(RefB) }

\* sequences over S of length 0..n
RECURSIVE SeqsUpTo(_, _)
SeqsUpTo(S, n) ==
    IF n = 0 THEN { <<>> }
    ELSE LET shorter == SeqsUpTo(S, n - 1)
         IN shorter \cup { Append(q, x) : q \in { r \in shorter : Len(r) = n - 1 }, x \in S }

BranchLists == SeqsUpTo(Leaves, MaxBranches)

PrefixLists == SeqsUpTo(Leaves, MaxPrefix)

\* keywords found next to an anyOf
UnionSiblings ==
    { EmptyMap,
      "description" :> Str(""),
      "description" :> Str("outer"),
      "type" :> Str("array"),
      "description" :> Str("outer") @@ "type" :> Str("object") @@ "title" :> Str("T"),
      "properties" :> Dict("title" :> TString @@ "p" :> TInteger),
      "$ref" :> Str(RefA) }

UnionNodes ==
    { Dict(Merge(sib, "anyOf" :> List(q))) : sib \in UnionSiblings, q \in BranchLists }
    \cup { Dict("anyOf" :> List(<<Str("string"), TInteger>>)),
           Dict("anyOf" :> List(<<Dict("anyOf" :> List(<<TString, TInteger>>)), TNull>>)) }

\* keywords found next to a $ref
RefSiblings ==
    { EmptyMap,
      "description" :> Str("outer"),
      "type" :> Str("array"),
      "type" :> Str("string") @@ "description" :> Str("outer"),
      "title" :> Str("T") @@ "default" :> Str("x"),
      "properties" :> Dict("title" :> TString @@ "p" :> Ref(RefA)),
      "items" :> Ref(RefA),
      "anyOf" :> List(<<TString, TInteger>>),
      "anyOf" :> List(<<TNull>>) }

RefStrings == { RefA, RefB, RefC, RefOld, RefDeep, "A" }

RefNodes ==
    { Dict(Merge(sib, "$ref" :> Str(r))) : sib \in RefSiblings, r \in RefStrings }
    \cup { Dict("$ref" :> TString), Dict("$ref" :> Str(RefA) @@ "x-note" :> Ref(RefB)) }

ObjectNodes ==
    { Dict("type" :> Str("object") @@ "properties" :> Dict("p" :> a @@ "title" :> b)) :
        a \in Leaves \cup {Ref(RefC)}, b \in {TString, Ref(RefA), Described} }
    \cup { Dict("type" :> Str("object") @@ "title" :> Str("T")
                @@ "properties" :> Dict("p" :> Dict("$defs" :> Dict("A" :> TInteger)
                                                      @@ "$ref" :> Str(r))
                                         @@ "q" :> Ref(r))) : r \in {RefA, RefB} }
    \cup { Dict("type" :> Str("object") @@ "properties" :> Str("none")) }
    \cup { Dict("type" :> Str("object")
                @@ "properties" :>
                     Dict("p" :> Dict("$defs" :> Dict("A" :> Typed("boolean"))
                                      @@ "type" :> Str("object")
                                      @@ "properties" :> Dict("a" :> Ref(RefA) @@ "b" :> Ref(RefB)))
                          @@ "q" :> Ref(RefA))) }

ArrayNodes ==
    { Typed("array") }
    \cup { Dict("type" :> Str("array") @@ "items" :> a) : a \in Leaves \cup {Ref(RefC)} }
    \cup { Dict("type" :> Str("array") @@ "prefixItems" :> List(q)) : q \in PrefixLists }
    \cup { Dict("type" :> Str("array") @@ "items" :> a @@ "prefixItems" :> List(<<b>>)
                @@ "minItems" :> Str("1")) :
             a \in {TString, Ref(RefA), Typed("array")}, b \in {TInteger, Ref(RefB)} }
    \cup { Dict("type" :> Str("array") @@ "prefixItems" :> TString) }
    \cup { Dict("type" :> Str("array") @@ "prefixItems" :> List(<<a, TInteger>>)) :
             a \in {TString, Dict("type" :> Str("string") @@ "title" :> Str("first"))} }

OtherNodes ==
    { Dict("x-meta" :> a @@ "enum" :> List(<<b, Str("k")>>)) :
        a \in {TString, Ref(RefA), Dict("title" :> Str("T"))},
        b \in {Str("j"), Dict("default" :> Str("x") @@ "name" :> Str("n"))} }
    \cup { EmptyDict, TString, Described,
           Dict("type" :> Str("string") @@ "pattern" :> Str("a+") @@ "maxLength" :> Str("3")) }


\* the definitions of A
BodiesA ==
    { TString,
      Dict("type" :> Str("string") @@ "description" :> Str("defdesc") @@ "title" :> Str("A")),
      Dict("type" :> Str("object") @@ "properties" :> Dict("next" :> Ref(RefA))),
      Ref(RefB),
      Dict("type" :> Str("array") @@ "items" :> Ref(RefB)),
      Dict("anyOf" :> List(<<Ref(RefA), TNull>>)),
      Typed("array"),
      Dict("type" :> Str("object")
           @@ "properties" :> Dict("next" :> Dict("$ref" :> Str(RefA) @@ "description" :> Str("link")))),
      Dict("type" :> Str("object")
           @@ "properties" :> Dict("next" :> Dict("$ref" :> Str(RefA) @@ "type" :> Str("array")
                                                   @@ "x-note" :> Str("n")))) }

\* the definitions of B
BodiesB ==
    { TInteger,
      Ref(RefA),
      Dict("type" :> Str("object") @@ "properties" :> Dict("back" :> Ref(RefA))),
      Dict("anyOf" :> List(<<Ref(RefA), Ref(RefB)>>) @@ "description" :> Str("either")),
      Dict("type" :> Str("array") @@ "prefixItems" :> List(<<Ref(RefB)>>)) }

\* the $defs blocks of a document root
Tables ==
    { EmptyMap }
    \cup { "A" :> a : a \in BodiesA }
    \cup { "A" :> a @@ "B" :> b : a \in BodiesA, b \in BodiesB }

\* the $defs blocks tried with every union and array node
FewTables ==
    { "A" :> TString,
      "A" :> Dict("type" :> Str("string") @@ "description" :> Str("defdesc") @@ "title" :> Str("A"))
        @@ "B" :> TInteger,
      "A" :> Dict("type" :> Str("object") @@ "properties" :> Dict("next" :> Ref(RefA)))
        @@ "B" :> Dict("type" :> Str("object") @@ "properties" :> Dict("back" :> Ref(RefA))),
      "A" :> Ref(RefB) @@ "B" :> Ref(RefA),
      "A" :> Dict("type" :> Str("array") @@ "items" :> Ref(RefB))
        @@ "B" :> Dict("anyOf" :> List(<<Ref(RefA), Ref(RefB)>>) @@ "description" :> Str("either")) }

\* root with the $defs block t
WithDefs(root, t) == Dict(Merge(root.v, "$defs" :> Dict(t)))

\* an array of x
Arr(x) == Dict("type" :> Str("array") @@ "items" :> x)

\* documents whose two definitions are long chains of arrays that end in a
\* reference to each other
DeepDocuments ==
    { WithDefs(Ref(RefA), "A" :> Arr(Arr(Arr(Arr(Arr(Ref(RefB))))))
                            @@ "B" :> Arr(Arr(Arr(Arr(Arr(Ref(RefA))))))),
      WithDefs(Arr(Ref(RefA)), "A" :> Arr(Arr(Ref(RefB))) @@ "B" :> Arr(Ref(RefA))) }

\* a document whose definition refers to itself from a node that is a union too
MixedDocuments ==
    { WithDefs(Ref(RefA),
               "A" :> Dict("type" :> Str("object")
                           @@ "properties" :>
                                Dict("next" :> Dict("$ref" :> Str(RefA)
                                                    @@ "anyOf" :> List(<<TString, TInteger>>)
                                                    @@ "x-note" :> Str("n"))))) }

WideRoots == UnionNodes \cup ArrayNodes
NarrowRoots == RefNodes \cup ObjectNodes \cup OtherNodes

\* d is a root node, without a $defs block or with one
IsDocument(d) ==
    \/ d \in WideRoots \cup NarrowRoots
    \/ \E root \in WideRoots, t \in FewTables : d = WithDefs(root, t)
    \/ \E root \in NarrowRoots, t \in Tables : d = WithDefs(root, t)
    \/ d \in DeepDocuments \cup MixedDocuments

----------------------------------------------------------------------------
(* The state machine: a document is flattened, and the result flattened again *)

\* no request to code_exec is being handled
ExecIdle ==
    /\ code = None
    /\ timeout_setting = <<>>
    /\ timeout_value = 0
    /\ sandbox_calls = <<>>
    /\ sandbox_outcome = None
    /\ response = None
    /\ exec_pc = "idle"

\* no call of _apply_filters is under way
FilterIdle ==
    /\ row = <<>>
    /\ conditions = <<>>
    /\ column_indices = <<>>
    /\ match_all = TRUE
    /\ filter_result = None
    /\ filter_pc = "idle"

\* no call of read_tab is under way
ReadIdle ==
    /\ file_path = <<>>
    /\ tab_index = 0
    /\ cell_range = None
    /\ sheet_count = 0
    /\ workbook_values = "unbound"
    /\ workbook_formulas = "unbound"
    /\ read_result = ""
    /\ read_pc = "idle"

Init ==
    /\ IsDocument(schema)
    /\ pc = "start"
    /\ result = None
    /\ calls = {}
    /\ result2 = None
    /\ ExecIdle
    /\ FilterIdle
    /\ ReadIdle

\* result = flatten_schema(schema)
Flatten ==
    /\ pc = "start"
    /\ LET r == flatten_schema(schema)
       IN /\ result' = r.res
          /\ calls' = r.log
          /\ pc' = IF Raised(r.log) THEN "raised" ELSE "done"
    /\ UNCHANGED <<schema, result2, execVars, filterVars, readVars>>

\* result2 = flatten_schema(result)
FlattenAgain ==
    /\ pc = "done"
    /\ LET r == flatten_schema(result)
       IN /\ result2' = r.res
          /\ pc' = IF Raised(r.log) THEN "raised" ELSE "again"
    /\ UNCHANGED <<schema, result, calls, execVars, filterVars, readVars>>

Next == Flatten \/ FlattenAgain

Spec == Init /\ [][Next]_vars

----------------------------------------------------------------------------
(* Vocabulary of the properties *)

\* flatten_schema has returned
Returned == pc \in {"done", "again"}

RECURSIVE SchemaNodes(_)
\* The schema nodes of a tree: every mapping in it, except that the value of
\* "properties" is a mapping from property names to schema nodes and not a
\* schema node itself.
SchemaNodes(x) ==
    IF IsDict(x)
    THEN {x} \cup UNION { IF key = "properties" /\ IsDict(x.v[key])
                          THEN UNION { SchemaNodes(x.v[key].v[name]) : name \in DOMAIN x.v[key].v }
                          ELSE SchemaNodes(x.v[key]) : key \in DOMAIN x.v }
    ELSE IF IsList(x) THEN UNION { SchemaNodes(x.v[i]) : i \in 1..Len(x.v) }
    ELSE {}

\* the table in effect at the node of call c
TableOf(c) == LocalDefs(c.obj, c.defs)

\* the node of call c carries a reference of the form #/$defs/<name>
IsNamedRef(c) ==
    IsDict(c.obj) /\ IsStr(Get(c.obj, "$ref")) /\ StartsWithDefs(Get(c.obj, "$ref").v)

\* the name referenced by the node of call c
NameOf(c) == LastSegment(Get(c.obj, "$ref").v)

\* that name is defined by the table in effect
InTable(c) == Truthy(TableOf(c)) /\ NameOf(c) \in DOMAIN TableOf(c).v

\* a reference to a name that is being expanded on the path to the node
CyclicRef(c) == IsNamedRef(c) /\ InTable(c) /\ NameOf(c) \in c.seen

\* a reference to a defined name that is not being expanded
FreshRef(c) == IsNamedRef(c) /\ InTable(c) /\ NameOf(c) \notin c.seen

\* a reference to a name that the table in effect does not define
AbsentRef(c) == IsNamedRef(c) /\ ~InTable(c)

\* the keywords of a node that are neither unsupported nor the union keyword
SupportedSiblings(obj) == DOMAIN obj.v \ (UNSUPPORTED_FIELDS \cup {"anyOf"})

\* d is the call that call c makes on value with the visited set seen
IsNestedCall(d, c, value, seen) ==
    d.obj = value /\ d.defs = TableOf(c) /\ d.seen = seen /\ d.depth = c.depth + 1

\* the text that marks a reference to a name being expanded
RecursionMarker(name) == Str("(recursive: " \o name \o ")")

\* the branches of a union node that are mappings not typed null, in input order
ConcreteBranches(obj) ==
    LET concrete(b) == IsDict(b) /\ Get(b, "type") # Str("null")
    IN SelectSeq(obj.v["anyOf"].v, concrete)

\* the node of call c is handled as a union: it has a non-empty anyOf list and
\* is not a reference to a definition of the table
UnionCall(c) ==
    /\ IsDict(c.obj) /\ c.exc = ""
    /\ ~(IsNamedRef(c) /\ InTable(c))
    /\ IsList(Get(c.obj, "anyOf")) /\ Len(Get(c.obj, "anyOf").v) > 0

\* a union node collapsed onto its single non-null branch
SingleBranchCall(c) == UnionCall(c) /\ Len(ConcreteBranches(c.obj)) = 1

\* a union node with more than one non-null branch
MultiBranchCall(c) == UnionCall(c) /\ Len(ConcreteBranches(c.obj)) > 1

\* d is the call that normalises the first non-null branch of the union of c
IsBranchCall(d, c) == IsNestedCall(d, c, ConcreteBranches(c.obj)[1], c.seen)

----------------------------------------------------------------------------
(* Properties *)

\* C1: no schema node of the tree returned by flatten_schema carries a $ref
\* keyword, whether the reference was resolvable, cyclic, absent from the
\* table or not of the form #/$defs/<name>.
C1_NoReference ==
    Returned => \A n \in SchemaNodes(result) : "$ref" \notin DOMAIN n.v

\* C1 witness: a document with an inlined, a cyclic and an absent reference
C1_Witness ==
    /\ Returned
    /\ \E c \in calls : FreshRef(c)
    /\ \E c \in calls : CyclicRef(c)
    /\ \E c \in calls : AbsentRef(c)

\* C2: every array-typed node of the output has an items field, on every
\* return path (plain node, inlined definition, placeholder, collapsed union).
C2_ArrayComplete ==
    Returned => \A n \in SchemaNodes(result) :
                    Get(n, "type") = Str("array") => "items" \in DOMAIN n.v

\* C3: no anyOf keyword appears anywhere in the output, for unions with any
\* number of branches including zero.
C3_NoUnion ==
    Returned => \A n \in SchemaNodes(result) : "anyOf" \notin DOMAIN n.v

\* C4: flatten_schema returns, without raising, for every document in which
\* a definition refers to itself, directly or through other definitions.
C4_CyclesTerminate ==
    (pc # "start" /\ \E c \in calls : IsNamedRef(c) /\ NameOf(c) \in c.seen)
        => (Returned /\ \A c \in calls : c.exc = "" /\ c.depth <= RecursionLimit)

\* C4 witness: a cycle through two definitions, met below the root
C4_Witness ==
    /\ Returned
    /\ \E c \in calls : CyclicRef(c) /\ Cardinality(c.seen) = 2 /\ c.depth >= 4

\* C5: the node emitted for a reference to a name in the visited set is
\* object-typed, its description is the recursion marker of that name, and it
\* carries every supported sibling keyword of the referencing node, also when
\* the referencing node has a sibling type or description.
C5_PlaceholderShape ==
    \A c \in calls : (CyclicRef(c) /\ c.exc = "") =>
        /\ Get(c.res, "type") = Str("object")
        /\ Get(c.res, "description") = RecursionMarker(NameOf(c))
        /\ SupportedSiblings(c.obj) \subseteq DOMAIN c.res.v

\* C5 amended: the placeholder is object-typed with the recursion marker as
\* description except where the referencing node has a sibling type or
\* description of its own, which replaces the placeholder's; it carries every
\* supported sibling keyword, normalised, and nothing else.
C5_PlaceholderShapeAmended ==
    \A c \in calls : (CyclicRef(c) /\ c.exc = "") =>
        /\ DOMAIN c.res.v = {"type", "description"} \cup SupportedSiblings(c.obj)
        /\ "type" \notin DOMAIN c.obj.v => c.res.v["type"] = Str("object")
        /\ "description" \notin DOMAIN c.obj.v
              => c.res.v["description"] = RecursionMarker(NameOf(c))
        /\ \A key \in SupportedSiblings(c.obj) :
              \E d \in calls : IsNestedCall(d, c, c.obj.v[key], c.seen) /\ c.res.v[key] = d.res

\* C5 witness: the placeholder of a reference that has a sibling type and a
\* custom sibling keyword: the marker, the sibling's type, the custom keyword
C5_Witness ==
    /\ Returned
    /\ \E c \in calls :
          /\ CyclicRef(c)
          /\ c.res = Dict("type" :> Str("array") @@ "description" :> RecursionMarker("A")
                          @@ "x-note" :> Str("n"))

\* C6: a reference to a defined name outside the visited set yields the
\* normalised definition with the supported sibling keywords merged in: keys
\* of the definition that no sibling redefines are kept, and on a collision
\* the value of the referencing node wins.
C6_InlineMerge ==
    \A c \in calls : (FreshRef(c) /\ c.exc = "") =>
        \E d \in calls :
            /\ IsNestedCall(d, c, TableOf(c).v[NameOf(c)], c.seen \cup {NameOf(c)})
            /\ IsDict(d.res)
            /\ DOMAIN c.res.v = DOMAIN d.res.v \cup SupportedSiblings(c.obj)
            /\ \A key \in DOMAIN d.res.v \ SupportedSiblings(c.obj) :
                  c.res.v[key] = d.res.v[key]
            /\ \A key \in SupportedSiblings(c.obj) :
                  \E e \in calls : IsNestedCall(e, c, c.obj.v[key], c.seen)
                                   /\ c.res.v[key] = e.res

\* C6 witness: a reference with a sibling description to a definition that
\* has a description and a type of its own
C6_Witness ==
    /\ Returned
    /\ \E c \in calls :
          /\ FreshRef(c)
          /\ SupportedSiblings(c.obj) = {"description"}
          /\ c.obj.v["description"] = Str("outer")
          /\ NameOf(c) = "A"
          /\ Get(TableOf(c).v["A"], "description") = Str("defdesc")
          /\ c.res = Dict("type" :> Str("string") @@ "description" :> Str("outer"))

\* C7: a reference to a name absent from the table (or without any table)
\* does not raise and yields the sibling keywords alone: no $ref, no
\* placeholder, no key that the referencing node did not carry.
C7_AbsentRefPassthrough ==
    \A c \in calls : AbsentRef(c) =>
        /\ c.exc = ""
        /\ "$ref" \notin DOMAIN c.res.v
        /\ Get(c.res, "description") # RecursionMarker(NameOf(c))
        /\ DOMAIN c.res.v \subseteq DOMAIN c.obj.v

\* the node without its $ref keyword
WithoutRef(obj) == Dict([key \in DOMAIN obj.v \ {"$ref"} |-> obj.v[key]])

\* C7 amended: a reference to an absent name does not raise and yields what
\* the node's other keywords normalise to (the result for the node without
\* its $ref): no $ref, no placeholder, and no key that the node did not
\* carry other than an items backfilled on an array-typed node and, when the
\* node also carries a non-empty anyOf, the keys of the collapsed union.
C7_AbsentRefPassthroughAmended ==
    \A c \in calls : AbsentRef(c) =>
        /\ c.exc = ""
        /\ "$ref" \notin DOMAIN c.res.v
        /\ Get(c.res, "description") # RecursionMarker(NameOf(c))
        /\ c.res = inline_refs(WithoutRef(c.obj), c.defs, c.seen, c.path).res
        /\ ~IsUnion(c.obj) =>
              /\ DOMAIN c.res.v \subseteq (DOMAIN c.obj.v \ UNSUPPORTED_FIELDS) \cup {"items"}
              /\ DOMAIN c.obj.v \ UNSUPPORTED_FIELDS \subseteq DOMAIN c.res.v
              /\ ("items" \in DOMAIN c.res.v /\ "items" \notin DOMAIN c.obj.v)
                    => Get(c.obj, "type") = Str("array")

\* C7 witness: a reference to a name that the table in effect lacks, on an
\* array-typed node, which yields the type and the backfilled items
C7_Witness ==
    /\ Returned
    /\ \E c \in calls :
          /\ AbsentRef(c) /\ Truthy(TableOf(c)) /\ NameOf(c) = "C"
          /\ c.res = Dict("type" :> Str("array") @@ "items" :> DefaultItems)

\* C8: a union with exactly one non-null branch yields that branch's
\* normalised schema without a union annotation; its description is the
\* union node's when it has one, else the branch's when it has one, else
\* absent. A union of {type: string} and {type: null} gives {type: string}.
C8_SingleBranch ==
    \A c \in calls : SingleBranchCall(c) =>
        \E b \in calls :
            /\ IsBranchCall(b, c)
            /\ \A key \in DOMAIN b.res.v \ {"description"} : Get(c.res, key) = b.res.v[key]
            /\ Get(c.res, "description") =
                  IF "description" \in DOMAIN c.obj.v THEN c.obj.v["description"]
                  ELSE Get(b.res, "description")
            /\ SupportedSiblings(c.obj) = {} => c.res = b.res

\* C8 witness: a union without a description of its own, collapsed onto its
\* single non-null branch, inherits the description of that branch
C8_Witness ==
    /\ Returned
    /\ \E c \in calls : /\ SingleBranchCall(c)
                        /\ c.obj = Dict("anyOf" :> List(<<Described, TNull>>))
                        /\ c.res = Described

\* C8 witness of the example
C8_WitnessExample ==
    /\ Returned
    /\ schema = Dict("anyOf" :> List(<<TString, TNull>>))
    /\ result = TString

\* C9: on a union collapsed onto its single non-null branch, every supported
\* keyword present both on the union node and on the normalised branch has
\* the union node's value in the output.
C9_SiblingsWin ==
    \A c \in calls : SingleBranchCall(c) =>
        \E b \in calls :
            /\ IsBranchCall(b, c)
            /\ \A key \in SupportedSiblings(c.obj) \cap DOMAIN b.res.v :
                  \E e \in calls : IsNestedCall(e, c, c.obj.v[key], c.seen)
                                   /\ Get(c.res, key) = e.res

\* C9 amended: on a union collapsed onto its single non-null branch, the
\* union node's description takes precedence over the branch's; for every
\* other supported keyword present on both, the output carries the branch's
\* value, and the union node's other keywords are carried where the branch
\* has none.
C9_DescriptionWins ==
    \A c \in calls : SingleBranchCall(c) =>
        \E b \in calls :
            /\ IsBranchCall(b, c)
            /\ "description" \in DOMAIN c.obj.v
                  => Get(c.res, "description") = c.obj.v["description"]
            /\ \A key \in (SupportedSiblings(c.obj) \cap DOMAIN b.res.v) \ {"description"} :
                  Get(c.res, key) = b.res.v[key]
            /\ \A key \in SupportedSiblings(c.obj) \ (DOMAIN b.res.v \cup {"description"}) :
                  \E e \in calls : IsNestedCall(e, c, c.obj.v[key], c.seen)
                                   /\ Get(c.res, key) = e.res

\* C9 witness: a union node with a description and a type of its own,
\* collapsed onto a branch that has both
C9_Witness ==
    /\ Returned
    /\ \E c \in calls :
          /\ SingleBranchCall(c)
          /\ {"description", "type"} \subseteq DOMAIN c.obj.v
          /\ \E b \in calls : /\ IsBranchCall(b, c)
                              /\ {"description", "type"} \subseteq DOMAIN b.res.v
                              /\ b.res.v["description"] # c.obj.v["description"]
                              /\ b.res.v["type"] # c.obj.v["type"]
                              /\ c.res.v["description"] = c.obj.v["description"]
                              /\ c.res.v["type"] = b.res.v["type"]

\* the name of a branch in the annotation: its type, or for a bare reference
\* the referenced definition name
BranchName(b) ==
    IF "type" \in DOMAIN b.v THEN b.v["type"].v ELSE LastSegment(b.v["$ref"].v)

\* the branch has a type or is a bare reference
IsNamedBranch(b) ==
    \/ "type" \in DOMAIN b.v /\ IsStr(b.v["type"])
    \/ DOMAIN b.v = {"$ref"} /\ IsStr(b.v["$ref"]) /\ HasSlash(b.v["$ref"].v)

\* (Union of: N1, N2, ...) over the non-null branches in input order
Annotation(obj) ==
    LET branches == ConcreteBranches(obj)
    IN "(Union of: "
         \o JoinWith([i \in 1..Len(branches) |-> BranchName(branches[i])], ", ") \o ")"

\* the non-null branches of the union of c all have a name
NamedBranches(c) ==
    \A i \in 1..Len(ConcreteBranches(c.obj)) : IsNamedBranch(ConcreteBranches(c.obj)[i])

\* C10: a union with more than one non-null branch yields the normalised
\* first non-null branch with the description (Union of: N1, N2, ...), the
\* names in input order and null branches omitted, preceded by the union
\* node's own description and one space if it has a description.
C10_UnionAnnotation ==
    \A c \in calls : (MultiBranchCall(c) /\ NamedBranches(c)) =>
        \E b \in calls :
            /\ IsBranchCall(b, c)
            /\ \A key \in DOMAIN b.res.v \ {"description"} : Get(c.res, key) = b.res.v[key]
            /\ Get(c.res, "description") =
                  IF "description" \in DOMAIN c.obj.v
                  THEN Str(c.obj.v["description"].v \o " " \o Annotation(c.obj))
                  ELSE Str(Annotation(c.obj))

\* C10 amended: as C10, the annotation being preceded by the union node's
\* description and one space only if that description is not empty; with no
\* description or an empty one the annotation alone is the description.
C10_UnionAnnotationAmended ==
    \A c \in calls : (MultiBranchCall(c) /\ NamedBranches(c)) =>
        \E b \in calls :
            /\ IsBranchCall(b, c)
            /\ \A key \in DOMAIN b.res.v \ {"description"} : Get(c.res, key) = b.res.v[key]
            /\ Get(c.res, "description") =
                  IF "description" \in DOMAIN c.obj.v /\ c.obj.v["description"] # Str("")
                  THEN Str(c.obj.v["description"].v \o " " \o Annotation(c.obj))
                  ELSE Str(Annotation(c.obj))

\* C10 witness: a described union of string, integer and null, and the
\* undescribed union of a typed branch and a bare reference
C10_Witness ==
    /\ Returned
    /\ \E c \in calls :
          /\ MultiBranchCall(c)
          /\ c.obj.v["anyOf"] = List(<<TString, TNull, Described>>)
          /\ Get(c.res, "description") = Str("outer (Union of: string, integer)")
          /\ Get(c.res, "type") = Str("string")

\* C10 witness: the names of a bare reference and of a typed branch, in input order
C10_WitnessReference ==
    /\ Returned
    /\ \E c \in calls :
          /\ MultiBranchCall(c)
          /\ c.obj.v = ("anyOf" :> List(<<Ref(RefB), TString>>))
          /\ Get(c.res, "description") = Str("(Union of: B, string)")

\* a union node none of whose branches is a mapping not typed null (an empty
\* anyOf list included), that is not a reference to a definition of the table
ZeroBranchCall(c) ==
    /\ IsDict(c.obj) /\ c.exc # "RecursionError"
    /\ ~(IsNamedRef(c) /\ InTable(c))
    /\ IsList(Get(c.obj, "anyOf")) /\ Len(ConcreteBranches(c.obj)) = 0

\* C11: for a union node with zero non-null branches the call does not raise
\* and returns a node whose type is string and that carries every supported
\* sibling keyword of the union node.
C11_EmptyUnionFallback ==
    \A c \in calls : ZeroBranchCall(c) =>
        /\ c.exc = ""
        /\ Get(c.res, "type") = Str("string")
        /\ SupportedSiblings(c.obj) \subseteq DOMAIN c.res.v

\* the node of call c is handled as a plain mapping: it is neither a reference
\* to a definition of the table nor a union
PlainCall(c) ==
    /\ IsDict(c.obj) /\ c.exc = ""
    /\ ~(IsNamedRef(c) /\ InTable(c))
    /\ ~UnionCall(c)

\* a plain node whose type is array
ArrayCall(c) == PlainCall(c) /\ Get(c.obj, "type") = Str("array")

\* the node has a non-empty prefixItems list
HasTuple(obj) == IsList(Get(obj, "prefixItems")) /\ Len(Get(obj, "prefixItems").v) > 0

\* the node has no prefixItems, or an empty prefixItems list
HasNoTuple(obj) ==
    \/ "prefixItems" \notin DOMAIN obj.v
    \/ IsList(obj.v["prefixItems"]) /\ Len(obj.v["prefixItems"].v) = 0

\* C12: an array node without items and with a non-empty prefixItems list gets
\* as items the normalised first element of prefixItems and nothing of the
\* other elements, and the output node has no prefixItems; the tuple
\* [{type: string}, {type: integer}] gives items = {type: string}.
C12_TupleItems ==
    \A c \in calls : (ArrayCall(c) /\ "items" \notin DOMAIN c.obj.v /\ HasTuple(c.obj)) =>
        /\ "items" \in DOMAIN c.res.v
        /\ "prefixItems" \notin DOMAIN c.res.v
        /\ \E d \in calls :
              /\ IsNestedCall(d, c, c.obj.v["prefixItems"].v[1], c.seen)
              /\ c.res.v["items"] = d.res
        /\ IsDict(c.res.v["items"]) => DOMAIN c.res.v["items"].v \cap UNSUPPORTED_FIELDS = {}
        /\ c.obj.v["prefixItems"] = List(<<TString, TInteger>>) => c.res.v["items"] = TString

\* C12 witness: a two-element tuple whose first element has a title, and the
\* tuple of the example
C12_Witness ==
    /\ Returned
    /\ \E c \in calls :
          /\ ArrayCall(c)
          /\ Get(c.obj, "prefixItems")
               = List(<<Dict("type" :> Str("string") @@ "title" :> Str("first")), TInteger>>)
          /\ c.res = Dict("type" :> Str("array") @@ "items" :> TString)

\* C13: an array node without items and without a non-empty prefixItems list
\* gets items = {type: string}; an array node that has items keeps its own
\* items, normalised, whatever its prefixItems.
C13_DefaultItems ==
    \A c \in calls : ArrayCall(c) =>
        /\ ("items" \notin DOMAIN c.obj.v /\ HasNoTuple(c.obj))
              => Get(c.res, "items") = Dict("type" :> Str("string"))
        /\ "items" \in DOMAIN c.obj.v
              => \E d \in calls : /\ IsNestedCall(d, c, c.obj.v["items"], c.seen)
                                  /\ Get(c.res, "items") = d.res

\* C13 witness: an array with items and a tuple keeps its items, which are a
\* bare array that gets the default items
C13_Witness ==
    /\ Returned
    /\ \E c \in calls :
          /\ ArrayCall(c) /\ HasTuple(c.obj)
          /\ Get(c.obj, "items") = Typed("array")
          /\ c.res.v["items"] = Dict("type" :> Str("array") @@ "items" :> TString)
    /\ \E c \in calls :
          /\ ArrayCall(c) /\ c.obj = Typed("array")
          /\ c.res = Dict("type" :> Str("array") @@ "items" :> TString)

\* the unsupported keywords that a node carries
UnsupportedOf(obj) == DOMAIN obj.v \cap UNSUPPORTED_FIELDS

\* C14: no schema node of the tree returned by flatten_schema, at any depth,
\* carries a keyword of UNSUPPORTED_FIELDS, whether the node was returned for a
\* plain node, an inlined definition, a cyclic placeholder or a collapsed union.
C14_NoUnsupportedKeyword ==
    Returned => \A n \in SchemaNodes(result) : UnsupportedOf(n) = {}

\* C14 witness: a document with a plain node, an inlined reference, a cyclic
\* reference and a union, where a plain node and a nested referencing node
\* carry unsupported keywords besides $ref
C14_Witness ==
    /\ Returned
    /\ \E c \in calls : FreshRef(c) /\ c.depth > 1 /\ UnsupportedOf(c.obj) # {"$ref"}
    /\ \E c \in calls : CyclicRef(c)
    /\ \E c \in calls : UnionCall(c)
    /\ \E c \in calls : PlainCall(c) /\ UnsupportedOf(c.obj) # {}

\* the keywords whose values are schemas, rewritten like any schema node
SchemaValued == {"properties", "items"}

\* a node without a $ref and without an anyOf keyword
BareCall(c) ==
    PlainCall(c) /\ "$ref" \notin DOMAIN c.obj.v /\ "anyOf" \notin DOMAIN c.obj.v

\* C15: on a node that is neither a reference nor a union, every keyword
\* outside UNSUPPORTED_FIELDS (the schema-valued properties and items apart)
\* is on the output node with the value it has on the input node, also when
\* that value is a mapping or a list of mappings.
C15_KeywordsUnchanged ==
    Returned => \A c \in calls : BareCall(c) =>
        \A key \in DOMAIN c.obj.v \ (UNSUPPORTED_FIELDS \cup SchemaValued) :
            key \in DOMAIN c.res.v /\ c.res.v[key] = c.obj.v[key]

\* the property names of a node that has a properties mapping
PropertyNames(node) == DOMAIN node.v["properties"].v

\* C16: for every node of the input that has a properties mapping, the output
\* node has a properties mapping with exactly the same property names, also
\* when a name is an unsupported keyword and also when the node carries a
\* $ref or an anyOf.
C16_PropertyNamesKept ==
    Returned => \A c \in calls :
        (IsDict(c.obj) /\ c.exc = "" /\ IsDict(Get(c.obj, "properties"))) =>
            /\ IsDict(Get(c.res, "properties"))
            /\ PropertyNames(c.res) = PropertyNames(c.obj)

RECURSIVE NoRefNoUnion(_)
\* no mapping of the tree, the definitions of $defs included, has a $ref or
\* an anyOf keyword
NoRefNoUnion(x) ==
    IF IsDict(x)
    THEN /\ "$ref" \notin DOMAIN x.v
         /\ "anyOf" \notin DOMAIN x.v
         /\ \A key \in DOMAIN x.v : NoRefNoUnion(x.v[key])
    ELSE IF IsList(x) THEN \A i \in 1..Len(x.v) : NoRefNoUnion(x.v[i])
    ELSE TRUE

\* C17: for a document without $ref and without anyOf, flattening the result
\* of flatten_schema again does not raise and returns that result unchanged.
C17_Idempotent ==
    NoRefNoUnion(schema) =>
        /\ pc # "raised"
        /\ pc = "again" => result2 = result

\* C17 witness: a document without $ref and anyOf that the first call changes
\* (a tuple array with items and a bound), flattened twice
C17_Witness ==
    /\ pc = "again"
    /\ NoRefNoUnion(schema)
    /\ Get(schema, "type") = Str("array") /\ HasTuple(schema) /\ "minItems" \in DOMAIN schema.v
    /\ result # schema
    /\ result2 = result

\* d is a call made directly by call c
IsChildOf(d, c) ==
    Len(d.path) = Len(c.path) + 1 /\ SubSeq(d.path, 1, Len(c.path)) = c.path

\* d is a call made, directly or not, while call c runs
IsWithin(d, c) ==
    Len(d.path) > Len(c.path) /\ SubSeq(d.path, 1, Len(c.path)) = c.path

\* the last step of the path of call d
LastStep(d) == d.path[Len(d.path)]

\* the node of call c has a $defs block of its own
HasOwnDefs(c) == IsDict(c.obj) /\ IsDict(Get(c.obj, "$defs"))

\* the names of the table that call c inherits
InheritedNames(c) == IF IsDict(c.defs) THEN DOMAIN c.defs.v ELSE {}

\* the table for the subtree of the node of call c: the inherited table, or
\* where the node has its own $defs the inherited names and the local names,
\* each local name with its local definition
ScopedTable(c) ==
    IF HasOwnDefs(c)
    THEN Dict([name \in InheritedNames(c) \cup DOMAIN c.obj.v["$defs"].v |->
                 IF name \in DOMAIN c.obj.v["$defs"].v
                 THEN c.obj.v["$defs"].v[name]
                 ELSE c.defs.v[name]])
    ELSE c.defs

\* C18: the calls made for the subtree of a node receive the inherited table
\* with the node's own $defs merged over it (a name defined in both has the
\* local definition, a name defined only in the inherited table keeps it), and
\* a reference expands the definition that this table gives to its name.
C18_LocalDefsOverride ==
    \A c \in calls : c.exc = "" =>
        \A d \in calls : IsChildOf(d, c) =>
            /\ d.defs = ScopedTable(c)
            /\ LastStep(d).kind = "def" => d.obj = ScopedTable(c).v[LastStep(d).name]

\* C18 witness: a nested node redefines A, which the root defines too, and
\* not B; in its subtree a reference to A expands the local definition and a
\* reference to B the inherited one
C18_Witness ==
    /\ Returned
    /\ \E c \in calls :
          /\ HasOwnDefs(c) /\ c.depth > 1
          /\ c.obj.v["$defs"] = Dict("A" :> Typed("boolean"))
          /\ InheritedNames(c) = {"A", "B"}
          /\ c.defs.v["A"] # Typed("boolean")
          /\ \E r \in calls : /\ IsWithin(r, c) /\ FreshRef(r) /\ NameOf(r) = "A"
                              /\ r.res = Typed("boolean")
          /\ \E r \in calls, e \in calls :
                /\ IsWithin(r, c) /\ FreshRef(r) /\ NameOf(r) = "B"
                /\ IsChildOf(e, r) /\ LastStep(e).kind = "def"
                /\ e.obj = c.defs.v["B"]
                /\ r.res = e.res

\* the definition names whose expansion encloses the node reached by path
EnclosingNames(path) ==
    { path[i].name : i \in { j \in 1..Len(path) : path[j].kind = "def" } }

\* e is the call that expands the definition referenced by the node of call c
IsExpansionOf(e, c) ==
    IsChildOf(e, c) /\ LastStep(e) = Step("def", NameOf(c))

\* C20: at every call the visited set is exactly the set of definition names
\* whose expansion encloses the node; a reference to a defined name is expanded
\* if and only if it is not inside an expansion of that name, and otherwise
\* replaced by the recursion placeholder; the root call starts from the empty
\* visited set.
C20_VisitedIsEnclosing ==
    \A c \in calls :
        /\ c.seen = EnclosingNames(c.path)
        /\ (IsNamedRef(c) /\ InTable(c) /\ c.exc = "") =>
              /\ (\E e \in calls : IsExpansionOf(e, c)) <=> NameOf(c) \notin EnclosingNames(c.path)
              /\ \A e \in calls : IsExpansionOf(e, c) =>
                    e.seen = EnclosingNames(c.path) \cup {NameOf(c)}
              /\ (NameOf(c) \in EnclosingNames(c.path) /\ "description" \notin DOMAIN c.obj.v)
                    => Get(c.res, "description") = RecursionMarker(NameOf(c))

\* C20 witness: a definition referenced from two sibling properties is
\* expanded at both, and the reference to it inside each expansion gets the
\* placeholder
C20_Witness ==
    /\ Returned
    /\ \E c1 \in calls, c2 \in calls :
          /\ c1.path # c2.path
          /\ ~IsWithin(c1, c2) /\ ~IsWithin(c2, c1)
          /\ FreshRef(c1) /\ FreshRef(c2) /\ NameOf(c1) = NameOf(c2)
          /\ \E e \in calls : IsExpansionOf(e, c1)
          /\ \E e \in calls : IsExpansionOf(e, c2)
          /\ \E r \in calls : IsWithin(r, c1) /\ CyclicRef(r) /\ NameOf(r) = NameOf(c1)
          /\ \E r \in calls : IsWithin(r, c2) /\ CyclicRef(r) /\ NameOf(r) = NameOf(c1)

RECURSIVE DocDepth(_)
\* the depth of a document: the longest chain of nested values in it, the
\* scalar at its end and the mappings of $defs and properties included
DocDepth(x) ==
    LET Max(S) == IF S = {} THEN 0 ELSE CHOOSE n \in S : \A m \in S : m <= n
    IN IF IsDict(x) THEN 1 + Max({ DocDepth(x.v[key]) : key \in DOMAIN x.v })
       ELSE IF IsList(x) THEN 1 + Max({ DocDepth(x.v[i]) : i \in 1..Len(x.v) })
       ELSE 1

RECURSIVE DefNames(_)
\* the definition names of a document: the keys of every $defs block in it
DefNames(x) ==
    IF IsDict(x)
    THEN (IF IsDict(Get(x, "$defs")) THEN DOMAIN x.v["$defs"].v ELSE {})
         \cup UNION { DefNames(x.v[key]) : key \in DOMAIN x.v }
    ELSE IF IsList(x) THEN UNION { DefNames(x.v[i]) : i \in 1..Len(x.v) }
    ELSE {}

\* no definition name is expanded twice on the path
ExpandedOnce(path) ==
    \A i \in 1..Len(path), j \in 1..Len(path) :
        (i # j /\ path[i].kind = "def" /\ path[j].kind = "def") => path[i].name # path[j].name

\* C21: on every chain of nested calls each definition name is expanded at
\* most once, and the chain is never longer than the depth of the document
\* plus the number of its definition names.
C21_DepthBound ==
    \A c \in calls :
        /\ ExpandedOnce(c.path)
        /\ c.depth <= DocDepth(schema) + Cardinality(DefNames(schema))

\* C21 amended: on every chain of nested calls each definition name is
\* expanded at most once, and the chain is never longer than the depth of the
\* document times one plus the number of its definition names.
C21_DepthBoundAmended ==
    \A c \in calls :
        /\ c.exc = ""
        /\ ExpandedOnce(c.path)
        /\ c.depth <= DocDepth(schema) * (1 + Cardinality(DefNames(schema)))

\* C21 witness: a chain of calls through the expansions of two deep
\* definitions, longer by two than the depth of the document plus two
C21_Witness ==
    /\ Returned
    /\ \E c \in calls :
          /\ EnclosingNames(c.path) = {"A", "B"}
          /\ Cardinality(DefNames(schema)) = 2
          /\ c.depth = DocDepth(schema) + 2 + 2

\* the node of call c has both a $ref and an anyOf keyword
RefAndUnion(c) ==
    IsDict(c.obj) /\ c.exc = "" /\ "$ref" \in DOMAIN c.obj.v /\ "anyOf" \in DOMAIN c.obj.v

\* a call made by call c to normalise its anyOf list or a branch of it
IsUnionWork(d, c) ==
    IsChildOf(d, c) /\ (LastStep(d).kind = "branch" \/ LastStep(d) = Step("key", "anyOf"))

\* the node without its anyOf keyword
WithoutUnion(obj) == Dict([key \in DOMAIN obj.v \ {"anyOf"} |-> obj.v[key]])

\* C22: on a node with both a resolvable $ref and an anyOf, the reference
\* wins: the result is that of the same node without the anyOf (the
\* normalised definition, or the placeholder, with the other supported
\* siblings), no call normalises the anyOf list or a branch, and the result
\* has neither an anyOf nor a union annotation; a call normalises a branch of
\* such a node only if its reference is not resolvable.
C22_ReferenceBeforeUnion ==
    Returned => \A c \in calls : RefAndUnion(c) =>
        /\ (IsNamedRef(c) /\ InTable(c)) =>
              /\ ~\E d \in calls : IsUnionWork(d, c)
              /\ c.res = inline_refs(WithoutUnion(c.obj), c.defs, c.seen, c.path).res
              /\ DOMAIN c.res.v \subseteq
                    SupportedSiblings(c.obj) \cup
                    (IF NameOf(c) \in c.seen THEN {"type", "description"}
                     ELSE UNION { DOMAIN e.res.v : e \in { d \in calls : IsExpansionOf(d, c) } })
              /\ (NameOf(c) \in c.seen /\ "description" \notin DOMAIN c.obj.v)
                    => Get(c.res, "description") = RecursionMarker(NameOf(c))
        /\ (\E d \in calls : IsUnionWork(d, c)) => ~(IsNamedRef(c) /\ InTable(c))

\* C22 witness: a reference to a definition being expanded, on a node with an
\* anyOf of two typed branches, gives the placeholder with the sibling and no
\* union annotation
C22_Witness ==
    /\ Returned
    /\ \E c \in calls :
          /\ RefAndUnion(c) /\ CyclicRef(c)
          /\ Len(ConcreteBranches(c.obj)) = 2
          /\ c.res = Dict("type" :> Str("object") @@ "description" :> RecursionMarker("A")
                          @@ "x-note" :> Str("n"))

\* the calls that enclose call d and whose node has a $defs block of its own
DefiningAncestors(d) == { a \in calls : IsWithin(d, a) /\ HasOwnDefs(a) }

\* the $defs block of the node of call a
OwnDefs(a) == a.obj.v["$defs"].v

\* the innermost of the enclosing calls whose $defs block defines name
InnermostDefiner(d, name) ==
    LET definers == { a \in DefiningAncestors(d) : name \in DOMAIN OwnDefs(a) }
    IN CHOOSE a \in definers : \A b \in definers : Len(b.path) <= Len(a.path)

\* C23: the table that a call receives is made of the $defs blocks of the
\* nodes whose calls enclose it and of no other block (not those of sibling
\* or descendant nodes), each name with the definition of the innermost
\* enclosing block; the calls inside an expanded definition enclose it from
\* the referencing node, so its references are resolved by the table of that
\* node, not by the table of the block that declares the definition.
C23_TableScoping ==
    \A d \in calls :
        IF DefiningAncestors(d) = {}
        THEN d.defs = None
        ELSE /\ IsDict(d.defs)
             /\ DOMAIN d.defs.v = UNION { DOMAIN OwnDefs(a) : a \in DefiningAncestors(d) }
             /\ \A name \in DOMAIN d.defs.v :
                   d.defs.v[name] = OwnDefs(InnermostDefiner(d, name))[name]

\* C23 witness: the root declares A and B, where B is a reference to A; a
\* property redefines A and refers to B, and gets its own A; its sibling
\* refers to B too and gets the A of the root
C23_Witness ==
    /\ Returned
    /\ \E c \in calls, s \in calls :
          /\ HasOwnDefs(c) /\ c.depth = 2 /\ s.depth = 2 /\ ~HasOwnDefs(s)
          /\ OwnDefs(c) = ("A" :> TInteger)
          /\ FreshRef(c) /\ NameOf(c) = "B" /\ FreshRef(s) /\ NameOf(s) = "B"
          /\ c.defs.v["B"] = Ref(RefA)
          /\ c.defs.v["A"] = TString
          /\ c.res = TInteger
          /\ s.res = TString

----------------------------------------------------------------------------
(* code_exec: a shell command is validated, run in the sandbox, reported.   *)
(* A text is a sequence of atoms; an atom stands for its characters: a     *)
(* word of letters, one punctuation character or one whitespace character. *)

Whitespace == {" ", "\n"}

RECURSIVE lstrip(_)
\* the text without its leading whitespace
lstrip(s) == IF s # <<>> /\ Head(s) \in Whitespace THEN lstrip(Tail(s)) ELSE s

RECURSIVE rstrip(_)
\* the text without its trailing whitespace
rstrip(s) ==
    IF s # <<>> /\ s[Len(s)] \in Whitespace THEN rstrip(SubSeq(s, 1, Len(s) - 1)) ELSE s

\* s.strip()
strip(s) == rstrip(lstrip(s))

\* s.startswith(prefix)
startswith(s, prefix) == Len(s) >= Len(prefix) /\ SubSeq(s, 1, Len(prefix)) = prefix

\* the length of the first word of a text that does not start with whitespace
WordEnd(s) ==
    LET stops == { i \in 1..Len(s) : s[i] \in Whitespace }
    IN IF stops = {} THEN Len(s) ELSE (CHOOSE i \in stops : \A j \in stops : i <= j) - 1

RECURSIVE split(_)
\* s.split(): the words between runs of whitespace
split(s) ==
    LET t == lstrip(s)
    IN IF t = <<>> THEN <<>>
       ELSE <<SubSeq(t, 1, WordEnd(t))>> \o split(SubSeq(t, WordEnd(t) + 1, Len(t)))

\* atom in word
Contains(word, atom) == \E i \in 1..Len(word) : word[i] = atom

\* word.rsplit(".", 1)[-1] for a word that contains "."
AfterLastDot(word) ==
    LET dots == { i \in 1..Len(word) : word[i] = "." }
        last == CHOOSE i \in dots : \A j \in dots : j <= i
    IN SubSeq(word, last + 1, Len(word))

\* atom.lower(): PNG is the only atom of the model with capital letters
LowerAtom(atom) == IF atom = "PNG" THEN "png" ELSE atom

RECURSIVE LowerText(_)
\* the characters of word.lower() as one string
LowerText(word) == IF word = <<>> THEN "" ELSE LowerAtom(Head(word)) \o LowerText(Tail(word))

\* the file extensions of lines 64-75
ImageExtensions == {"png", "jpg", "jpeg", "gif", "bmp", "tiff", "webp", "pdf", "ps", "eps"}

\* looks_like_python_import(code)
looks_like_python_import(c) ==
    IF ~startswith(c, <<"import", " ">>) THEN FALSE
    ELSE LET rest == strip(SubSeq(c, 3, Len(c)))
             first_documents == IF rest # <<>> THEN split(rest)[1] ELSE <<>>
         IN IF (IF rest # <<>>
                THEN startswith(rest, <<"-">>) \/ Contains(split(rest)[1], "/")
                ELSE FALSE)
            THEN FALSE
            ELSE IF Contains(first_documents, ".")
                    /\ LowerText(AfterLastDot(first_documents)) \in ImageExtensions
            THEN FALSE
            ELSE TRUE

\* any(python_indicators)
LooksLikePython(code_stripped) ==
    \/ looks_like_python_import(code_stripped)
    \/ startswith(code_stripped, <<"from", " ">>)
    \/ startswith(code_stripped, <<"def", " ">>)
    \/ startswith(code_stripped, <<"class", " ">>)
    \/ startswith(code_stripped, <<"async", " ", "def", " ">>)
    \/ startswith(code_stripped, <<"@">>)

\* the value of a decimal digit
DigitValue == "0" :> 0 @@ "1" :> 1 @@ "2" :> 2 @@ "3" :> 3 @@ "4" :> 4
              @@ "5" :> 5 @@ "6" :> 6 @@ "7" :> 7 @@ "8" :> 8 @@ "9" :> 9

\* the text of int(s) after its surrounding whitespace and its sign
Unsigned(s) ==
    LET t == strip(s)
    IN IF t # <<>> /\ Head(t) \in {"+", "-"} THEN Tail(t) ELSE t

\* int(s) does not raise ValueError: an optional sign and at least one digit
IsInt(s) == Unsigned(s) # <<>> /\ \A i \in 1..Len(Unsigned(s)) : Unsigned(s)[i] \in DOMAIN DigitValue

RECURSIVE DigitsValue(_)
\* the number written by a sequence of digits
DigitsValue(d) ==
    IF d = <<>> THEN 0 ELSE 10 * DigitsValue(SubSeq(d, 1, Len(d) - 1)) + DigitValue[d[Len(d)]]

\* int(s)
IntOf(s) ==
    IF strip(s) # <<>> /\ Head(strip(s)) = "-" THEN 0 - DigitsValue(Unsigned(s))
    ELSE DigitsValue(Unsigned(s))

\* FS_ROOT, by default
FS_ROOT == "/filesystem"

\* CodeExecResponse(success=..., output=...)
CodeExecResponse(success, output) == [success |-> success, output |-> output]

\* what run_sandboxed_command can give: a result, or an exception
SandboxResult(timed_out, error, return_code, stdout, stderr) ==
    [raised |-> "", timed_out |-> timed_out, error |-> error, return_code |-> return_code,
     stdout |-> stdout, stderr |-> stderr]
SandboxRaise(exc) ==
    [raised |-> exc, timed_out |-> FALSE, error |-> None, return_code |-> 0,
     stdout |-> "", stderr |-> ""]

\* mutant: the return code of the command is not looked at
ResponseFor_IgnoresReturnCode(res, timeout) ==
    IF res.timed_out
    THEN CodeExecResponse(FALSE, "Command execution timed out after " \o ToString(timeout)
                                   \o " seconds")
    ELSE IF Truthy(res.error)
    THEN CodeExecResponse(FALSE, "System error: " \o PyStr(res.error))
    ELSE CodeExecResponse(TRUE, res.stdout)

\* lines 121-148: the response for a result of the sandbox
ResponseFor(res, timeout) ==
    IF res.timed_out
    THEN CodeExecResponse(FALSE, "Command execution timed out after " \o ToString(timeout)
                                   \o " seconds")
    ELSE IF Truthy(res.error)
    THEN CodeExecResponse(FALSE, "System error: " \o PyStr(res.error))
    ELSE IF res.return_code # 0
    THEN LET output == res.stdout
                       \o (IF res.stderr # "" THEN "\nError output:\n" \o res.stderr ELSE "")
         IN CodeExecResponse(FALSE, output \o "\n\nCommand failed with exit code "
                                      \o ToString(res.return_code))
    ELSE CodeExecResponse(TRUE, res.stdout)

\* the commands of the model: optional whitespace, a first word, a separator,
\* a rest and optional trailing whitespace
CodeLeads == { <<>>, <<" ">>, <<"\n">> }
CodeHeads ==
    { <<>>, <<"import">>, <<"from">>, <<"def">>, <<"class">>, <<"async", " ", "def">>,
      <<"async">>, <<"@">>, <<"ls">>, <<"importlib">> }
CodeSeparators == { <<>>, <<" ">>, <<" ", " ">>, <<"\n">> }
CodeRests ==
    { <<>>, <<"os">>, <<"os", ".", "path">>, <<"os", " ", "as", " ", "o">>,
      <<"-", "window", " ", "root", " ", "x", ".", "png">>, <<"a", "/", "b">>,
      <<"x", ".", "png">>, <<"x", ".", "PNG">>, <<"x", ".", "png", ".", "os">>,
      <<"os", " ", "x", ".", "png">>, <<"os", " ", "a", "/", "b">>, <<".", "png">> }
CodeTrails == { <<>>, <<" ">> }

Codes ==
    { lead \o head \o sep \o rest \o trail :
        lead \in CodeLeads, head \in CodeHeads, sep \in CodeSeparators,
        rest \in CodeRests, trail \in CodeTrails }

\* the values of the CODE_EXEC_COMMAND_TIMEOUT setting
TimeoutSettings ==
    { <<"3", "0", "0">>, <<" ", "3", "0", "\n">>, <<"-", "1">>, <<"0">>,
      <<"a", "b", "c">>, <<"3", ".", "5">>, <<>>, <<"3", "0", "s">>, <<"-">> }

\* what the sandbox may give
SandboxOutcomes ==
    { SandboxResult(t, e, rc, out, err) :
        t \in BOOLEAN, e \in {None, Str(""), Str("boom")}, rc \in {0, 1},
        out \in {"", "out"}, err \in {"", "err"} }
    \cup { SandboxRaise(exc) : exc \in {"FileNotFoundError", "OSError", "RuntimeError"} }

\* no document is being flattened
SchemaIdle ==
    /\ schema = None
    /\ pc = "idle"
    /\ result = None
    /\ calls = {}
    /\ result2 = None

\* a request arrives, with code None or a command
InitExec ==
    /\ SchemaIdle
    /\ FilterIdle
    /\ ReadIdle
    /\ code \in {None} \cup { Str(c) : c \in Codes }
    /\ timeout_setting \in TimeoutSettings
    /\ timeout_value = 0
    /\ sandbox_calls = <<>>
    /\ sandbox_outcome = None
    /\ response = None
    /\ exec_pc = "start"

\* lines 35-109: the request is rejected with a response, or the timeout is parsed
Validate ==
    /\ exec_pc = "start"
    /\ IF code = None
       THEN /\ response' = CodeExecResponse(FALSE,
                               "Error: Required parameter 'code' (command to execute)")
            /\ exec_pc' = "returned"
            /\ UNCHANGED timeout_value
       ELSE IF LooksLikePython(strip(code.v))
       THEN /\ response' = CodeExecResponse(FALSE, "Error: It looks like you passed raw Python code. "
                               \o "This tool executes shell commands, not Python directly.")
            /\ exec_pc' = "returned"
            /\ UNCHANGED timeout_value
       ELSE IF ~IsInt(timeout_setting)
       THEN /\ response' = CodeExecResponse(FALSE, "Configuration error: Invalid timeout value: "
                               \o JoinWith(timeout_setting, ""))
            /\ exec_pc' = "returned"
            /\ UNCHANGED timeout_value
       ELSE /\ timeout_value' = IntOf(timeout_setting)
            /\ exec_pc' = "run"
            /\ UNCHANGED response
    /\ UNCHANGED <<schemaVars, filterVars, readVars, code, timeout_setting, sandbox_calls, sandbox_outcome>>

\* lines 113-119: run_sandboxed_command(command=request.code, timeout=timeout_value, ...)
RunSandbox ==
    /\ exec_pc = "run"
    /\ sandbox_calls' = Append(sandbox_calls, [command |-> code.v, timeout |-> timeout_value])
    /\ \E outcome \in SandboxOutcomes : sandbox_outcome' = outcome
    /\ exec_pc' = "ran"
    /\ UNCHANGED <<schemaVars, filterVars, readVars, code, timeout_setting, timeout_value, response>>

\* lines 121-162: the result is turned into a response; FileNotFoundError and
\* OSError are caught, any other exception leaves the handler
Report ==
    /\ exec_pc = "ran"
    /\ IF sandbox_outcome.raised = ""
       THEN /\ response' = ResponseFor(sandbox_outcome, timeout_value)
            /\ exec_pc' = "returned"
       ELSE IF sandbox_outcome.raised = "FileNotFoundError"
       THEN /\ response' = CodeExecResponse(FALSE,
                               "Configuration error: Working directory not found: " \o FS_ROOT)
            /\ exec_pc' = "returned"
       ELSE IF sandbox_outcome.raised = "OSError"
       THEN /\ response' = CodeExecResponse(FALSE,
                               "System error: OS error when executing command")
            /\ exec_pc' = "returned"
       ELSE /\ exec_pc' = "raised"
            /\ UNCHANGED response
    /\ UNCHANGED <<schemaVars, filterVars, readVars, code, timeout_setting, timeout_value, sandbox_calls,
                   sandbox_outcome>>

NextExec == Validate \/ RunSandbox \/ Report

SpecExec == InitExec /\ [][NextExec]_vars

\* the word is a file name with one of the image extensions
HasImageExtension(word) ==
    \E i \in 1..Len(word) :
        /\ word[i] = "."
        /\ \A j \in (i + 1)..Len(word) : word[j] # "."
        /\ LowerText(SubSeq(word, i + 1, Len(word))) \in ImageExtensions

\* a Python-style import: "import " followed by a word that is not an option,
\* not a path and not an image file
PythonStyleImport(s) ==
    /\ Len(s) > 2 /\ s[1] = "import" /\ s[2] = " "
    /\ LET word == split(SubSeq(s, 3, Len(s)))[1]
       IN word[1] # "-" /\ ~Contains(word, "/") /\ ~HasImageExtension(word)

\* the command, stripped, starts like raw Python
StartsLikePython(s) ==
    \/ PythonStyleImport(s)
    \/ \E prefix \in { <<"from", " ">>, <<"def", " ">>, <<"class", " ">>,
                       <<"async", " ", "def", " ">>, <<"@">> } : startswith(s, prefix)

\* the request is one that code_exec rejects before it runs anything
RejectedRequest ==
    \/ code = None
    \/ StartsLikePython(strip(code.v))
    \/ ~IsInt(timeout_setting)

\* the sandbox was called once and gave a result without timeout, without
\* error and with return code 0
CommandSucceeded ==
    /\ Len(sandbox_calls) = 1
    /\ sandbox_outcome.raised = ""
    /\ ~sandbox_outcome.timed_out
    /\ ~Truthy(sandbox_outcome.error)
    /\ sandbox_outcome.return_code = 0

\* C24: code_exec returns success = True if and only if the sandboxed command
\* was run and its result has timed_out false, no error and return code 0;
\* for code None, for code that starts like raw Python and for a timeout
\* setting that is not an integer the sandbox is never called and a response
\* with success = False is returned, no exception; an empty command is run.
C24_CodeExecSuccess ==
    /\ exec_pc = "returned" => (response.success <=> CommandSucceeded)
    /\ (RejectedRequest /\ exec_pc # "start")
          => (exec_pc = "returned" /\ ~response.success /\ sandbox_calls = <<>>)
    /\ (code = Str(<<>>) /\ IsInt(timeout_setting) /\ exec_pc \notin {"start", "run"})
          => sandbox_calls = <<[command |-> <<>>, timeout |-> IntOf(timeout_setting)]>>

\* C24 witness: the shell command "import -window root x.png", with leading
\* whitespace, was run by the sandbox and reported as a success
C24_Witness ==
    /\ exec_pc = "returned"
    /\ code = Str(<<" ", "import", " ", "-", "window", " ", "root", " ", "x", ".", "png">>)
    /\ sandbox_calls = <<[command |-> code.v, timeout |-> 30]>>
    /\ response = CodeExecResponse(TRUE, "out")

----------------------------------------------------------------------------
(* filter_tab.py: _evaluate_condition and _apply_filters.
   A cell or a filter value is None, a string (the sequence of its
   characters) or a number. *)

Num(n) == [k |-> "int", v |-> n]

RECURSIVE Digits(_)
\* the decimal digits of a number that is not negative
Digits(n) ==
    LET d == CHOOSE c \in DOMAIN DigitValue : DigitValue[c] = n % 10
    IN IF n < 10 THEN <<d>> ELSE Append(Digits(n \div 10), d)

\* str(x) of a string or a number
CellText(x) == IF IsStr(x) THEN x.v ELSE Digits(x.v)

\* c.lower() of one character: A and B are the capital letters of the model
LowerChar(c) == IF c = "A" THEN "a" ELSE IF c = "B" THEN "b" ELSE c

\* s.lower()
Lower(s) == [i \in 1..Len(s) |-> LowerChar(s[i])]

\* a in b, of two strings
Substring(a, b) == \E i \in 0..(Len(b) - Len(a)) : SubSeq(b, i + 1, i + Len(a)) = a

\* s.endswith(suffix)
endswith(s, suffix) ==
    Len(s) >= Len(suffix) /\ SubSeq(s, Len(s) - Len(suffix) + 1, Len(s)) = suffix

\* float(x) does not raise ValueError or TypeError; the strings of the model
\* carry no decimal point, exponent, underscore, "inf" or "nan", so that a
\* string is a number exactly when int() reads it
IsFloat(x) == IF IsStr(x) THEN IsInt(x.v) ELSE TRUE

\* float(x)
FloatOf(x) == IF IsStr(x) THEN IntOf(x.v) ELSE x.v

\* lines 99-192
_evaluate_condition(cell_value, operator, filter_value) ==
    IF operator = "is_empty" THEN cell_value = None \/ cell_value = Str(<<>>)
    ELSE IF operator = "is_not_empty" THEN cell_value # None /\ cell_value # Str(<<>>)
    ELSE IF filter_value = None THEN FALSE
    ELSE IF operator = "contains" THEN
        IF cell_value = None THEN FALSE
        ELSE Substring(Lower(CellText(filter_value)), Lower(CellText(cell_value)))
    ELSE IF operator = "not_contains" THEN
        IF cell_value = None THEN TRUE
        ELSE ~Substring(Lower(CellText(filter_value)), Lower(CellText(cell_value)))
    ELSE IF operator = "starts_with" THEN
        IF cell_value = None THEN FALSE
        ELSE startswith(Lower(CellText(cell_value)), Lower(CellText(filter_value)))
    ELSE IF operator = "ends_with" THEN
        IF cell_value = None THEN FALSE
        ELSE endswith(Lower(CellText(cell_value)), Lower(CellText(filter_value)))
    ELSE IF operator = "equals" THEN
        IF cell_value = None THEN FALSE
        ELSE IF IsFloat(cell_value) /\ IsFloat(filter_value)
             THEN FloatOf(cell_value) = FloatOf(filter_value)
        ELSE Lower(CellText(cell_value)) = Lower(CellText(filter_value))
    ELSE IF operator = "not_equals" THEN
        IF cell_value = None THEN TRUE
        ELSE IF IsFloat(cell_value) /\ IsFloat(filter_value)
             THEN FloatOf(cell_value) # FloatOf(filter_value)
        ELSE Lower(CellText(cell_value)) # Lower(CellText(filter_value))
    ELSE IF operator \in {"greater_than", "less_than",
                          "greater_than_or_equal", "less_than_or_equal"} THEN
        IF cell_value = None THEN FALSE
        ELSE IF ~(IsFloat(cell_value) /\ IsFloat(filter_value)) THEN FALSE
        ELSE IF operator = "greater_than" THEN FloatOf(cell_value) > FloatOf(filter_value)
        ELSE IF operator = "less_than" THEN FloatOf(cell_value) < FloatOf(filter_value)
        ELSE IF operator = "greater_than_or_equal"
             THEN FloatOf(cell_value) >= FloatOf(filter_value)
        ELSE FloatOf(cell_value) <= FloatOf(filter_value)
    ELSE FALSE

\* lines 217-225 with an unresolved column counted as a match
ConditionResult_MissingPasses(r, condition, indices) ==
    IF condition.column \notin DOMAIN indices THEN TRUE
    ELSE LET col_idx == indices[condition.column]
             cell_value == IF col_idx < Len(r) THEN r[col_idx + 1] ELSE None
         IN _evaluate_condition(cell_value, condition.operator, condition.value)

\* lines 217-225: what one condition appends to results
ConditionResult(r, condition, indices) ==
    IF condition.column \notin DOMAIN indices THEN FALSE
    ELSE LET col_idx == indices[condition.column]
             cell_value == IF col_idx < Len(r) THEN r[col_idx + 1] ELSE None
         IN _evaluate_condition(cell_value, condition.operator, condition.value)

RECURSIVE all(_)
\* all(results), left to right
all(results) == IF results = <<>> THEN TRUE ELSE Head(results) /\ all(Tail(results))

RECURSIVE any(_)
\* any(results), left to right
any(results) == IF results = <<>> THEN FALSE ELSE Head(results) \/ any(Tail(results))

RECURSIVE FilterResults(_, _, _)
\* lines 215-225: the list results after the loop over the conditions
FilterResults(r, conds, indices) ==
    IF conds = <<>> THEN <<>>
    ELSE <<ConditionResult(r, Head(conds), indices)>> \o FilterResults(r, Tail(conds), indices)

\* lines 195-230
_apply_filters(r, conds, indices, all_of) ==
    IF conds = <<>> THEN TRUE
    ELSE LET results == FilterResults(r, conds, indices)
         IN IF all_of THEN all(results) ELSE any(results)

\* the cells of a row
CellValues == {None, Str(<<>>), Str(<<"A", "b">>), Str(<<"5">>), Num(5)}

\* the longest row
MaxRow == 2

\* the operators of a condition
Operators ==
    {"equals", "not_equals", "greater_than", "less_than", "greater_than_or_equal",
     "less_than_or_equal", "contains", "not_contains", "starts_with", "ends_with",
     "is_empty", "is_not_empty"}

\* FilterCondition(column=..., operator=..., value=...)
FilterCondition(column, operator, value) ==
    [column |-> column, operator |-> operator, value |-> value]

\* the conditions a list starts with
Conditions ==
    { FilterCondition(c, op, v) :
        c \in {"A", "B"}, op \in Operators, v \in {None, Str(<<"a">>), Num(5)} }

\* the conditions a list goes on with
FewConditions ==
    { FilterCondition("A", "contains", Str(<<"a">>)),
      FilterCondition("A", "equals", Num(5)),
      FilterCondition("B", "is_empty", None),
      FilterCondition("B", "less_than", Num(7)) }

\* the most conditions of a call
MaxConditions == 2

RECURSIVE ConditionLists(_)
\* the lists of one to n conditions
ConditionLists(n) ==
    IF n = 1 THEN { <<c>> : c \in Conditions }
    ELSE ConditionLists(n - 1)
         \cup { Append(l, c) : l \in { m \in ConditionLists(n - 1) : Len(m) = n - 1 },
                               c \in FewConditions }

\* column_indices: no column resolved, one, or both (0-based)
ColumnIndices == { <<>>, ("A" :> 0), ("B" :> 1), ("A" :> 0 @@ "B" :> 1) }

\* _apply_filters is called
InitFilter ==
    /\ SchemaIdle
    /\ ExecIdle
    /\ ReadIdle
    /\ row \in UNION { [1..n -> CellValues] : n \in 0..MaxRow }
    /\ conditions \in {<<>>} \cup ConditionLists(MaxConditions)
    /\ column_indices \in ColumnIndices
    /\ match_all \in BOOLEAN
    /\ filter_result = None
    /\ filter_pc = "start"

\* filter_result = _apply_filters(row, conditions, column_indices, match_all)
ApplyFilters ==
    /\ filter_pc = "start"
    /\ filter_result' = _apply_filters(row, conditions, column_indices, match_all)
    /\ filter_pc' = "returned"
    /\ UNCHANGED <<schemaVars, execVars, readVars, row, conditions, column_indices, match_all>>

NextFilter == ApplyFilters

SpecFilter == InitFilter /\ [][NextFilter]_vars

\* a condition evaluates true on the row: its column is resolved and the cell
\* at the index, or None beyond the row's end, satisfies it
EvaluatesTrue(i) ==
    /\ conditions[i].column \in DOMAIN column_indices
    /\ LET idx == column_indices[conditions[i].column]
       IN \E cell \in CellValues :
            /\ cell = (IF idx + 1 \in DOMAIN row THEN row[idx + 1] ELSE None)
            /\ _evaluate_condition(cell, conditions[i].operator, conditions[i].value)

\* C25: _apply_filters returns True for an empty condition list; otherwise,
\* with match_all it returns True exactly when every condition evaluates true
\* on the row, and without it exactly when at least one does
C25_ApplyFilters ==
    filter_pc = "returned" =>
        /\ conditions = <<>> => filter_result = TRUE
        /\ (conditions # <<>> /\ match_all) =>
              (filter_result <=> \A i \in DOMAIN conditions : EvaluatesTrue(i))
        /\ (conditions # <<>> /\ ~match_all) =>
              (filter_result <=> \E i \in DOMAIN conditions : EvaluatesTrue(i))

\* two conditions and OR: the first names an unresolved column, the second is
\* evaluated on the empty cell beyond the row's end, and the row passes
C25_Witness ==
    /\ filter_pc = "returned"
    /\ ~match_all
    /\ row = <<Num(5)>>
    /\ column_indices = ("B" :> 1)
    /\ conditions = <<FilterCondition("A", "is_empty", None),
                      FilterCondition("B", "is_empty", None)>>
    /\ filter_result = TRUE

----------------------------------------------------------------------------
(* read_tab.py: read_tab.  A workbook is unbound until load_workbook returns
   it, then open until close() is called on it.  The calls that read the file
   (load_workbook, the iteration over a sheet's rows, the lookup of a range
   or of a cell) may raise; close() and the lookup of a sheet by a name taken
   from sheetnames do not. *)

\* one atom of a path in lower case: .XLSX is the only one with capital letters
LowerPathAtom(atom) == IF atom = ".XLSX" THEN ".xlsx" ELSE atom

\* file_path.lower()
LowerPath(p) == [i \in 1..Len(p) |-> LowerPathAtom(p[i])]

\* one atom of a cell range in upper case
UpperAtom(atom) == IF atom = "a1" THEN "A1" ELSE IF atom = "c5" THEN "C5" ELSE atom

\* cell_range.upper()
upper(s) == [i \in 1..Len(s) |-> UpperAtom(s[i])]

\* the paths of a request
FilePaths ==
    { <<>>, <<"a", ".xlsx">>, <<"/", "a", ".txt">>, <<"/", "a", ".XLSX">>, <<"/", "a", ".xlsx">> }

\* the cell ranges of a request
CellRanges ==
    { None, Str(<<"a1", ":", "c5">>), Str(<<" ", "A1", ":", "C5", " ">>),
      Str(<<"a1">>), Str(<<"A1", " ">>), Str(<<"A1", ":">>) }

\* the largest tab index of a request
MaxTab == 2

\* the most sheets of a file
MaxSheets == 2

\* what the file system gives at lines 39-66
FileOutcomes == {"traversal", "missing", "not_file", "access_error", "read_error", "ok"}

\* read_tab is called
InitRead ==
    /\ SchemaIdle
    /\ ExecIdle
    /\ FilterIdle
    /\ file_path \in FilePaths
    /\ tab_index \in -1..MaxTab
    /\ cell_range \in CellRanges
    /\ sheet_count = 0
    /\ workbook_values = "unbound"
    /\ workbook_formulas = "unbound"
    /\ read_result = ""
    /\ read_pc = "start"

\* lines 28-66: the arguments are checked and the bytes of the file are read
Precheck ==
    /\ read_pc = "start"
    /\ \E fs \in FileOutcomes :
         LET early ==
               IF file_path = <<>> THEN "File path is required"
               ELSE IF ~startswith(file_path, <<"/">>) THEN "File path must start with /"
               ELSE IF ~endswith(LowerPath(file_path), <<".xlsx">>)
                    THEN "File path must end with .xlsx"
               ELSE IF tab_index < 0 THEN "Tab index must be a non-negative integer"
               ELSE IF fs = "traversal" THEN "Invalid path"
               ELSE IF fs = "missing" THEN "File not found"
               ELSE IF fs = "not_file" THEN "Not a file"
               ELSE IF fs = "access_error" THEN "Failed to access file"
               ELSE IF fs = "read_error" THEN "Failed to read file"
               ELSE ""
         IN /\ read_result' = early
            /\ read_pc' = IF early = "" THEN "load_values" ELSE "returned"
    /\ UNCHANGED <<schemaVars, execVars, filterVars, file_path, tab_index, cell_range,
                   sheet_count, workbook_values, workbook_formulas>>

\* lines 68-73: the values workbook is loaded
LoadValues ==
    /\ read_pc = "load_values"
    /\ \/ /\ read_result' = "Failed to load workbook"
          /\ read_pc' = "returned"
          /\ UNCHANGED <<sheet_count, workbook_values>>
       \/ /\ workbook_values' = "open"
          /\ sheet_count' \in 1..MaxSheets
          /\ read_pc' = "check_tab"
          /\ UNCHANGED read_result
    /\ UNCHANGED <<schemaVars, execVars, filterVars, file_path, tab_index, cell_range,
                   workbook_formulas>>

\* lines 76-81: the tab index is compared with the number of sheets
CheckTab ==
    /\ read_pc = "check_tab"
    /\ IF tab_index >= sheet_count
       THEN /\ workbook_values' = "closed"
            /\ read_result' = "Tab index is out of range"
            /\ read_pc' = "returned"
       ELSE /\ read_pc' = "load_formulas"
            /\ UNCHANGED <<workbook_values, read_result>>
    /\ UNCHANGED <<schemaVars, execVars, filterVars, file_path, tab_index, cell_range,
                   sheet_count, workbook_formulas>>

\* lines 83-91: the formulas workbook is loaded
LoadFormulas ==
    /\ read_pc = "load_formulas"
    /\ \/ /\ workbook_values' = "closed"
          /\ read_result' = "Failed to load workbook for formulas"
          /\ read_pc' = "returned"
          /\ UNCHANGED workbook_formulas
       \/ /\ workbook_formulas' = "open"
          /\ read_pc' = "read"
          /\ UNCHANGED <<workbook_values, read_result>>
    /\ UNCHANGED <<schemaVars, execVars, filterVars, file_path, tab_index, cell_range,
                   sheet_count>>

\* lines 93-121: the whole sheet is read, row by row
ReadAll ==
    /\ read_pc = "read"
    /\ cell_range = None
    /\ \/ /\ read_pc' = "unexpected"
          /\ UNCHANGED <<workbook_values, workbook_formulas, read_result>>
       \/ /\ workbook_values' = "closed"
          /\ workbook_formulas' = "closed"
          /\ read_result' = "ReadTabRangeResponse"
          /\ read_pc' = "returned"
    /\ UNCHANGED <<schemaVars, execVars, filterVars, file_path, tab_index, cell_range,
                   sheet_count>>

\* lines 123-165: a range of cells is read
ReadRange ==
    /\ read_pc = "read"
    /\ cell_range # None
    /\ Contains(upper(strip(cell_range.v)), ":")
    /\ workbook_values' = "closed"
    /\ workbook_formulas' = "closed"
    /\ read_result' \in {"ReadTabRangeResponse", "Invalid cell range"}
    /\ read_pc' = "returned"
    /\ UNCHANGED <<schemaVars, execVars, filterVars, file_path, tab_index, cell_range,
                   sheet_count>>

\* lines 123 and 166-186: one cell is read
ReadCell ==
    /\ read_pc = "read"
    /\ cell_range # None
    /\ ~Contains(upper(strip(cell_range.v)), ":")
    /\ workbook_values' = "closed"
    /\ workbook_formulas' = "closed"
    /\ read_result' \in {"ReadTabSingleCellResponse", "Invalid cell reference"}
    /\ read_pc' = "returned"
    /\ UNCHANGED <<schemaVars, execVars, filterVars, file_path, tab_index, cell_range,
                   sheet_count>>

\* lines 188-193: the handler of an exception raised at lines 76-186
Unexpected ==
    /\ read_pc = "unexpected"
    /\ workbook_values' = "closed"
    /\ read_result' = "Unexpected error"
    /\ read_pc' = "returned"
    /\ UNCHANGED <<schemaVars, execVars, filterVars, file_path, tab_index, cell_range,
                   sheet_count, workbook_formulas>>

NextRead ==
    \/ Precheck
    \/ LoadValues
    \/ CheckTab
    \/ LoadFormulas
    \/ ReadAll
    \/ ReadRange
    \/ ReadCell
    \/ Unexpected

SpecRead == InitRead /\ [][NextRead]_vars

\* C26: whenever read_tab has returned after opening a workbook, every
\* workbook it opened, values and formulas, has been closed
C26_WorkbooksClosed ==
    read_pc = "returned" =>
        /\ workbook_values # "open"
        /\ workbook_formulas # "open"

====
